---------------------------- MODULE Spec2Model ----------------------------
(***************************************************************************)
(* Data custody layer of the X-ray management system:                      *)
(*   src/src/database/database_manager.py  (DatabaseManager)               *)
(*   src/src/security/auth_manager.py      (AuthManager)                   *)
(*   src/src/ui/patient_management.py      (new_patient / save_patient)    *)
(*   src/src/ui/main_window.py             (usage log of login / logout)   *)
(*   src/src/ui/login_window.py            (attempt_login)                 *)
(*   src/main.py                           (start-up order)                *)
(*                                                                         *)
(* A process is one running application (main.py): it owns one             *)
(* DatabaseManager and one AuthManager and shares the key file             *)
(* data/encryption.key and the SQLite file data/xray_system.db with every  *)
(* other process.  SQLite admits one writer at a time: the first           *)
(* INSERT/UPDATE of a connection takes the write lock, commit releases it, *)
(* and a connection that cannot get the lock within the default timeout of *)
(* sqlite3.connect raises OperationalError ("database is locked").         *)
(***************************************************************************)
EXTENDS Integers, Sequences, FiniteSets, TLC

\* ------------------------------------------------------------------ bounds
NumProcs == 2
MaxOps == 4
MaxSeqOps == 4
MaxLedgerOps == 2
MaxAuthOps == 4
MaxRecordOps == 3
MaxStartOps == 2
MaxConfigOps == 2

Procs == 1..NumProcs

\* values the wall clock may show when CURRENT_TIMESTAMP or datetime.now() reads
\* it; it may stand still or be set back between two readings
Times == {0, 1}

\* ------------------------------------------------------------ input domains
Usernames == {"admin", "alice", "Alice"}
Passwords == {"Admin123!", "pw1"}
PatientIds == {"P-100", "P-200"}
Names == {"Jane", ""}
CreateRoles == {"radiologist", "technician"}
\* create_user takes any string as role: the roles of get_available_roles() and
\* one that is not among them
AnyRoles == {"admin", "radiologist", "technician", "guest"}
\* permission names asked for: two of the table and one no role lists
PermissionNames == {"add_users", "add_patients", "export_data"}

\* --------------------------------------------------------------- the state
VARIABLES
    keyFile,       \* data/encryption.key: NoFile, EmptyFile or a key
    keyCtr,        \* number of keys Fernet.generate_key() has produced
    pc,            \* pc[p]: where process p stands
    encryption_key,\* encryption_key[p]: DatabaseManager.encryption_key
    current_user,  \* current_user[p]: AuthManager.current_user
    loc,           \* loc[p]: locals of the running call (staged row, pending audit)
    result,        \* result[p]: outcome of the last finished call
    dbLock,        \* 0, or the process holding SQLite's write lock
    tablesExist,   \* CREATE TABLE IF NOT EXISTS has run
    users,         \* table users
    patients,      \* table patients
    xray_images,   \* table xray_images
    audit_logs,    \* table audit_logs
    usage_logs,    \* table usage_logs
    ctr,           \* randomness drawn so far: [salt, iv]
    supplied,      \* history: password given at the last successful create/rotate
    added,         \* history: payload of the last successful add_patient, by patient_id
    config_file,   \* config/settings.json
    config_data,   \* Config.config_data
    opsLeft        \* calls that may still be started

vars == <<keyFile, keyCtr, pc, encryption_key, current_user, loc, result,
          dbLock, tablesExist, users, patients, xray_images, audit_logs,
          usage_logs, ctr, supplied, added, config_file, config_data, opsLeft>>

keyVars == <<keyFile, keyCtr, encryption_key>>
cfgVars == <<config_file, config_data>>
tableVars == <<users, patients, xray_images, audit_logs, usage_logs>>

\* ------------------------------------------------------------- key material
\* os.path.exists(key_file) is false
NoFile == -1
\* the file open(key_file, 'wb') has created and nothing was written to yet
EmptyFile == 0
\* self.encryption_key before __init__ has set it
NoKey == -2
\* a key file cut short: its bytes decode to fewer than 32
TruncatedFile == -3

\* Fernet(key) raises ValueError unless key is 32 url-safe base64 bytes
ValidKeyAnyLength(k) == TRUE
ValidKey(k) == k >= 1

\* ------------------------------------------------------------------ values
NoUser == [id |-> 0, username |-> "", role |-> "", login_time |-> -1]
NoLoc == [row |-> <<>>, audit |-> <<>>, ret |-> 0, op |-> "", key |-> ""]
NoResult == [op |-> "", key |-> "", arg |-> "", out |-> "", val |-> <<>>]
\* user_id NULL in audit_logs
Null == 0
\* no add_patient has succeeded for the patient_id
NoPayload == [patient_id |-> "", name |-> ""]

SeqToSet(s) == {s[i] : i \in 1..Len(s)}

MaxOf(S) == IF S = {} THEN 0 ELSE CHOOSE m \in S : \A x \in S : x <= m

\* INTEGER PRIMARY KEY AUTOINCREMENT: one more than the largest id ever used
\* (no statement of the program deletes a row)
NextRowIdReuse(table) == IF Len(table) = 0 THEN 1 ELSE MaxOf({table[i].id : i \in 1..Len(table)})
NextRowId(table) == MaxOf({table[i].id : i \in 1..Len(table)}) + 1

\* ------------------------------------------------------------------ bcrypt
\* bcrypt.hashpw(password, salt): the salt is embedded in the verifier
hashpw(password, salt) == [salt |-> salt, digest |-> <<salt, password>>]
\* bcrypt.checkpw(password, hashed): rehash with the embedded salt and compare
checkpw(password, hashed) == hashpw(password, hashed.salt) = hashed

\* ------------------------------------------------------------------ Fernet
\* Fernet(key).encrypt(data): a token bound to the key and a fresh IV
encrypt(key, iv, data) == [key |-> key, iv |-> iv, data |-> data]
\* Fernet(key).decrypt(token) raises InvalidToken under another key
CanDecrypt(key, token) == token.key = key
decrypt(key, token) == token.data

\* ----------------------------------------------------------- patient payload
\* the dict save_patient builds
PatientData(patient_id, name) == [patient_id |-> patient_id, name |-> name]

\* json.dumps(patient_data): the members of the dict, in its order, as text
PayloadKeys == <<"patient_id", "name">>
dumpsSkipEmpty(d) ==
    LET keys == SelectSeq(PayloadKeys, LAMBDA k : k \in DOMAIN d /\ d[k] # "") IN
    [i \in 1..Len(keys) |-> <<keys[i], d[keys[i]]>>]
dumps(d) ==
    LET keys == SelectSeq(PayloadKeys, LAMBDA k : k \in DOMAIN d) IN
    [i \in 1..Len(keys) |-> <<keys[i], d[keys[i]]>>]
\* json.loads(text): one key for every member
loads(text) ==
    [k \in {text[i][1] : i \in DOMAIN text} |->
        text[CHOOSE i \in DOMAIN text : text[i][1] = k][2]]

\* -------------------------------------------------------------- SQL helpers
\* WHERE username = ? : TEXT compares with the BINARY collation (case-sensitive)
Lower(u) == IF u = "Alice" THEN "alice" ELSE u
UsernameEqNoCase(a, b) == Lower(a) = Lower(b)
UsernameEq(a, b) == a = b

\* SELECT ... FROM users WHERE username = ?
UserRowsNone(username) == {}
UserRows(username) == {i \in 1..Len(users) : UsernameEq(users[i].username, username)}
UserRowsById(id) == {i \in 1..Len(users) : users[i].id = id}
PatientRows(patient_id) == {i \in 1..Len(patients) : patients[i].patient_id = patient_id}

\* the write lock is free for process p to take
LockFreeAlways(p) == TRUE
LockFree(p) == dbLock = 0
\* another connection holds the write lock: the statement may time out
LockBusy(p) == dbLock # 0 /\ dbLock # p

\* ---------------------------------------------------------- AuthManager
\* has_permission: the role -> permission table; permissions.get(role, []) gives a
\* role the table does not know the empty list
PermissionsDefaultAllow(role) ==
    CASE role = "radiologist" ->
           {"view_patients", "view_xrays", "edit_xrays", "add_annotations",
            "view_equipment", "view_usage_logs"}
      [] role = "technician" ->
           {"view_patients", "add_patients", "view_xrays", "add_xrays",
            "view_equipment", "add_usage_logs"}
      [] OTHER ->
           {"view_patients", "add_patients", "edit_patients", "delete_patients",
            "view_xrays", "add_xrays", "edit_xrays", "delete_xrays",
            "view_users", "add_users", "edit_users", "delete_users",
            "view_equipment", "add_equipment", "edit_equipment", "delete_equipment",
            "view_audit_logs", "view_usage_logs", "system_admin"}
Permissions(role) ==
    CASE role = "admin" ->
           {"view_patients", "add_patients", "edit_patients", "delete_patients",
            "view_xrays", "add_xrays", "edit_xrays", "delete_xrays",
            "view_users", "add_users", "edit_users", "delete_users",
            "view_equipment", "add_equipment", "edit_equipment", "delete_equipment",
            "view_audit_logs", "view_usage_logs", "system_admin"}
      [] role = "radiologist" ->
           {"view_patients", "view_xrays", "edit_xrays", "add_annotations",
            "view_equipment", "view_usage_logs"}
      [] role = "technician" ->
           {"view_patients", "add_patients", "view_xrays", "add_xrays",
            "view_equipment", "add_usage_logs"}
      [] OTHER -> {}

has_permissionAnySession(p, permission) == current_user[p] # NoUser
has_permission(p, permission) ==
    /\ current_user[p] # NoUser
    /\ permission \in Permissions(current_user[p].role)

UserDataNoIssueTime(row, login_time) ==
    [id |-> row.id, username |-> row.username, role |-> row.role, login_time |-> -1]

\* user_data of authenticate_user: the session (full_name and email are left out)
UserData(row, login_time) ==
    [id |-> row.id, username |-> row.username, role |-> row.role,
     login_time |-> login_time]

\* the data screens belong to the main window, which exists while logged in
InSession(p) == current_user[p] # NoUser

\* ------------------------------------------------------------ utils.Config
\* the values a configuration holds, tagged with their Python type
Str(s) == [kind |-> "str", val |-> s]
Num(n) == [kind |-> "num", val |-> n]
Bool(b) == [kind |-> "bool", val |-> b]
List(items) == [kind |-> "list", items |-> items]
Tuple(items) == [kind |-> "tuple", items |-> items]
Dict(items) == [kind |-> "dict", items |-> items]
\* a Python set: json cannot serialize it
PySet == [kind |-> "set"]
\* None, the default of Config.get
None == [kind |-> "none"]

\* self.config_data before __init__ has set it
NoConfig == [kind |-> "unloaded"]
\* os.path.exists(self.config_file) is false
NoConfigFile == [kind |-> "absent"]
\* the file a json.dump that raised has left: the text written up to the value
PartialFile == [kind |-> "partial"]
\* a file holding one JSON document
JsonFile(doc) == [kind |-> "json", doc |-> doc]

\* d[k] = v on a dict
DictPut(d, k, v) ==
    Dict([a \in DOMAIN d.items \cup {k} |-> IF a = k THEN v ELSE d.items[a]])

\* load_config: default_config
default_config ==
    Dict([k \in {"database", "security", "dicom", "ui", "logging", "equipment"} |->
       CASE k = "database" ->
              Dict([a \in {"path", "backup_enabled", "backup_interval_hours"} |->
                 CASE a = "path" -> Str("data/xray_system.db")
                   [] a = "backup_enabled" -> Bool("True")
                   [] OTHER -> Num("24")])
         [] k = "security" ->
              Dict([a \in {"session_timeout_minutes", "max_login_attempts",
                           "password_min_length", "require_special_chars"} |->
                 CASE a = "session_timeout_minutes" -> Num("30")
                   [] a = "max_login_attempts" -> Num("3")
                   [] a = "password_min_length" -> Num("8")
                   [] OTHER -> Bool("True")])
         [] k = "dicom" ->
              Dict([a \in {"supported_formats", "max_file_size_mb", "auto_import_enabled"} |->
                 CASE a = "supported_formats" -> List(<<Str(".dcm"), Str(".dicom")>>)
                   [] a = "max_file_size_mb" -> Num("100")
                   [] OTHER -> Bool("True")])
         [] k = "ui" ->
              Dict([a \in {"theme", "language", "auto_save_interval_seconds"} |->
                 CASE a = "theme" -> Str("default")
                   [] a = "language" -> Str("en")
                   [] OTHER -> Num("300")])
         [] k = "logging" ->
              Dict([a \in {"level", "max_file_size_mb", "backup_count"} |->
                 CASE a = "level" -> Str("INFO")
                   [] a = "max_file_size_mb" -> Num("10")
                   [] OTHER -> Num("5")])
         [] OTHER ->
              Dict([a \in {"scanner_check_interval_seconds", "maintenance_reminder_days"} |->
                 CASE a = "scanner_check_interval_seconds" -> Num("30")
                   [] OTHER -> Num("7")])])

\* json.dump raises TypeError on a value it cannot serialize
RECURSIVE JsonOk(_)
JsonOk(v) ==
    CASE v.kind = "set" -> FALSE
      [] v.kind = "dict" -> \A k \in DOMAIN v.items : JsonOk(v.items[k])
      [] v.kind \in {"list", "tuple"} -> \A i \in DOMAIN v.items : JsonOk(v.items[i])
      [] OTHER -> TRUE

\* json.dump then json.load: a tuple is written as an array and read as a list
RECURSIVE ToJson(_)
ToJson(v) ==
    CASE v.kind = "dict" -> Dict([k \in DOMAIN v.items |-> ToJson(v.items[k])])
      [] v.kind \in {"list", "tuple"} -> List([i \in DOMAIN v.items |-> ToJson(v.items[i])])
      [] OTHER -> v

\* save_config: open(config_file, 'w') truncates the file, json.dump writes into it
\* and an exception is printed and dropped
save_config(data) == IF JsonOk(data) THEN JsonFile(ToJson(data)) ELSE PartialFile

\* merge_configs, merge_dicts: the user's value wins, except that a dict over a
\* dict is merged key by key
RECURSIVE merge_dicts(_, _)
merge_dicts(d1, d2) ==
    Dict([k \in DOMAIN d1.items \cup DOMAIN d2.items |->
            IF k \notin DOMAIN d2.items THEN d1.items[k]
            ELSE IF k \in DOMAIN d1.items /\ d1.items[k].kind = "dict"
                    /\ d2.items[k].kind = "dict"
            THEN merge_dicts(d1.items[k], d2.items[k])
            ELSE d2.items[k]])

\* load_config: the defaults when the file is absent or cannot be parsed
load_config(file) ==
    IF file.kind = "json" THEN merge_dicts(default_config, file.doc) ELSE default_config

\* key.split('.')
Split(key) ==
    CASE key = "ui" -> <<"ui">>
      [] key = "ui.theme" -> <<"ui", "theme">>
      [] key = "ui.language" -> <<"ui", "language">>
      [] key = "ui.theme.x" -> <<"ui", "theme", "x">>
      [] key = "test.key" -> <<"test", "key">>
      [] OTHER -> <<key>>

\* Config.get: value = value[k] for each k; KeyError and TypeError give default
RECURSIVE GetIn(_, _, _)
GetIn(value, keys, default) ==
    IF keys = <<>> THEN value
    ELSE IF value.kind = "dict" /\ Head(keys) \in DOMAIN value.items
    THEN GetIn(value.items[Head(keys)], Tail(keys), default)
    ELSE default
get(data, key, default) == GetIn(data, Split(key), default)

\* Config.set walks to the parent of the last key: a step or the assignment on
\* a value that is no dict raises TypeError
RECURSIVE SetRaises(_, _)
SetRaises(config, keys) ==
    \/ config.kind # "dict"
    \/ /\ Len(keys) > 1
       /\ Head(keys) \in DOMAIN config.items
       /\ SetRaises(config.items[Head(keys)], Tail(keys))

\* if k not in config: config[k] = {}; config = config[k]; config[keys[-1]] = value
RECURSIVE SetIn(_, _, _)
SetIn(config, keys, value) ==
    IF Len(keys) = 1 THEN DictPut(config, Head(keys), value)
    ELSE DictPut(config, Head(keys),
                 SetIn(IF Head(keys) \in DOMAIN config.items
                       THEN config.items[Head(keys)] ELSE Dict(<<>>),
                       Tail(keys), value))

\* Config() has run, as main.py runs it before DatabaseManager(): no settings
\* file existed and the defaults were saved
ConfigLoaded ==
    /\ config_file = save_config(default_config)
    /\ config_data = default_config

\* the variables of DatabaseManager, AuthManager and the database
programVars ==
    <<keyVars, pc, current_user, loc, result, dbLock, tablesExist, tableVars, ctr,
      supplied, added>>

\* Config.__init__: load_config, which saves the defaults when no file exists
ConfigNew ==
    /\ config_data = NoConfig
    /\ config_data' = load_config(config_file)
    /\ config_file' = IF config_file = NoConfigFile
                      THEN save_config(default_config) ELSE config_file
    /\ UNCHANGED <<programVars, opsLeft>>

\* Config.set: a TypeError leaves it before anything is changed or saved
ConfigSet(key, value) ==
    /\ config_data # NoConfig
    /\ opsLeft > 0
    /\ opsLeft' = opsLeft - 1
    /\ IF SetRaises(config_data, Split(key))
       THEN UNCHANGED cfgVars
       ELSE /\ config_data' = SetIn(config_data, Split(key), value)
            /\ config_file' = save_config(SetIn(config_data, Split(key), value))
    /\ UNCHANGED programVars

\* the application is started again: Config() loads the file the last run left
ConfigRestart ==
    /\ config_data # NoConfig
    /\ config_data' = load_config(config_file)
    /\ UNCHANGED <<config_file, programVars, opsLeft>>

\* ------------------------------------------------------------------- Init
\* the default administrator's row after a login at time 0
LeftAdmin ==
    [id |-> 1, username |-> "admin", password_hash |-> hashpw("Admin123!", 1),
     role |-> "admin", is_active |-> TRUE, last_login |-> 0]

InitWith(budget, keys) ==
    /\ keyCtr \in keys
    /\ keyFile = IF keyCtr = 0 THEN NoFile ELSE keyCtr
    /\ pc = [p \in Procs |-> "new"]
    /\ encryption_key = [p \in Procs |-> NoKey]
    /\ current_user = [p \in Procs |-> NoUser]
    /\ loc = [p \in Procs |-> NoLoc]
    /\ result = [p \in Procs |-> NoResult]
    /\ dbLock = 0
    /\ tablesExist = FALSE
    /\ users = <<>>
    /\ patients = <<>>
    /\ xray_images = <<>>
    /\ audit_logs = <<>>
    /\ usage_logs = <<>>
    /\ ctr = [salt |-> 0, iv |-> 0]
    /\ supplied = [u \in Usernames |-> ""]
    /\ added = [pid \in PatientIds |-> NoPayload]
    /\ ConfigLoaded
    /\ opsLeft = budget

\* nothing exists yet
Init == InitWith(MaxOps, {0})
\* the key file may be left from an earlier run
SeqInit == InitWith(MaxSeqOps, {0, 1})

\* every process has started against the same key file and database and its
\* user has logged in as the default administrator
Started(file, keys) ==
    /\ keyCtr = file
    /\ keyFile = file
    /\ pc = [p \in Procs |-> "idle"]
    /\ encryption_key = keys
    /\ current_user = [p \in Procs |-> UserData(LeftAdmin, 0)]
    /\ loc = [p \in Procs |-> NoLoc]
    /\ result = [p \in Procs |->
                   [op |-> "authenticate_user", key |-> "admin", arg |-> "Admin123!",
                    out |-> "ok", val |-> UserData(LeftAdmin, 0)]]
    /\ dbLock = 0
    /\ tablesExist = TRUE
    /\ users = <<LeftAdmin>>
    /\ patients = <<>>
    /\ xray_images = <<>>
    /\ audit_logs = <<>>
    /\ usage_logs = [p \in Procs |-> [id |-> p, user_id |-> 1, action |-> "LOGIN"]]
    /\ ctr = [salt |-> 1, iv |-> 0]
    /\ supplied = [u \in Usernames |-> IF u = "admin" THEN "Admin123!" ELSE ""]
    /\ added = [pid \in PatientIds |-> NoPayload]
    /\ ConfigLoaded

LedgerStart == Started(1, [p \in Procs |-> 1])

\* the same, after a first start in which process 1 and the others both found
\* no key file: process 1 works with the key it wrote first, the others with
\* the key that overwrote it
RacedStart == Started(2, [p \in Procs |-> IF p = 1 THEN 1 ELSE 2])

LedgerInit == LedgerStart /\ opsLeft = MaxLedgerOps

\* the patient records, from either start
RecordInit == (LedgerStart \/ RacedStart) /\ opsLeft = MaxRecordOps

\* a database left by earlier runs: the default administrator, and alice, whose
\* row an operator has deactivated in the users table (is_active = 0; no
\* statement of the program writes that column)
LeftAlice ==
    [id |-> 2, username |-> "alice", password_hash |-> hashpw("pw1", 2),
     role |-> "radiologist", is_active |-> FALSE, last_login |-> 0]

AuthInit ==
    /\ keyCtr = 1
    /\ keyFile = 1
    /\ pc = [p \in Procs |-> "idle"]
    /\ encryption_key = [p \in Procs |-> 1]
    /\ current_user = [p \in Procs |-> NoUser]
    /\ loc = [p \in Procs |-> NoLoc]
    /\ result = [p \in Procs |-> NoResult]
    /\ dbLock = 0
    /\ tablesExist = TRUE
    /\ users = <<LeftAdmin, LeftAlice>>
    /\ patients = <<>>
    /\ xray_images = <<>>
    /\ audit_logs = <<>>
    /\ usage_logs = <<>>
    /\ ctr = [salt |-> 2, iv |-> 0]
    /\ supplied = [u \in Usernames |->
                     IF u = "admin" THEN "Admin123!" ELSE IF u = "alice" THEN "pw1" ELSE ""]
    /\ added = [pid \in PatientIds |-> NoPayload]
    /\ ConfigLoaded
    /\ opsLeft = MaxAuthOps

\* the patient a left-over database holds, sealed under key 1, and its audit entry
LeftPatient ==
    [id |-> 1, patient_id |-> "P-100",
     encrypted_data |-> encrypt(1, 1, dumps(PatientData("P-100", "Jane"))),
     created_at |-> 0, updated_at |-> 0]
LeftAudit ==
    [id |-> 1, user_id |-> Null, action |-> "CREATE", resource_type |-> "patient",
     resource_id |-> 1, timestamp |-> 0]

\* before any process has started: the key file is absent, sound, empty or cut
\* short, and the database is absent or left by earlier runs
StartInit ==
    /\ keyFile \in {NoFile, 1, EmptyFile, TruncatedFile}
    /\ keyCtr = IF keyFile = NoFile THEN 0 ELSE 1
    /\ pc = [p \in Procs |-> "new"]
    /\ encryption_key = [p \in Procs |-> NoKey]
    /\ current_user = [p \in Procs |-> NoUser]
    /\ loc = [p \in Procs |-> NoLoc]
    /\ result = [p \in Procs |-> NoResult]
    /\ dbLock = 0
    /\ xray_images = <<>>
    /\ usage_logs = <<>>
    /\ \/ /\ tablesExist = FALSE
          /\ users = <<>>
          /\ patients = <<>>
          /\ audit_logs = <<>>
          /\ ctr = [salt |-> 0, iv |-> 0]
          /\ supplied = [u \in Usernames |-> ""]
          /\ added = [pid \in PatientIds |-> NoPayload]
       \/ /\ keyFile # NoFile
          /\ tablesExist = TRUE
          /\ users = <<LeftAdmin, LeftAlice>>
          /\ patients = <<LeftPatient>>
          /\ audit_logs = <<LeftAudit>>
          /\ ctr = [salt |-> 2, iv |-> 1]
          /\ supplied = [u \in Usernames |->
                           IF u = "admin" THEN "Admin123!"
                           ELSE IF u = "alice" THEN "pw1" ELSE ""]
          /\ added = [pid \in PatientIds |->
                        IF pid = "P-100" THEN PatientData("P-100", "Jane") ELSE NoPayload]
    /\ ConfigLoaded
    /\ opsLeft = MaxStartOps

\* before Config() has run, with no settings file
ConfigInit ==
    /\ config_file = NoConfigFile
    /\ config_data = NoConfig
    /\ keyFile = NoFile
    /\ keyCtr = 0
    /\ pc = [p \in Procs |-> "new"]
    /\ encryption_key = [p \in Procs |-> NoKey]
    /\ current_user = [p \in Procs |-> NoUser]
    /\ loc = [p \in Procs |-> NoLoc]
    /\ result = [p \in Procs |-> NoResult]
    /\ dbLock = 0
    /\ tablesExist = FALSE
    /\ users = <<>>
    /\ patients = <<>>
    /\ xray_images = <<>>
    /\ audit_logs = <<>>
    /\ usage_logs = <<>>
    /\ ctr = [salt |-> 0, iv |-> 0]
    /\ supplied = [u \in Usernames |-> ""]
    /\ added = [pid \in PatientIds |-> NoPayload]
    /\ opsLeft = MaxConfigOps

\* a call ends: its outcome is recorded and the process is idle again
Return(p, op, key, arg, out, val) ==
    /\ result' = [result EXCEPT ![p] =
                     [op |-> op, key |-> key, arg |-> arg, out |-> out, val |-> val]]
    /\ loc' = [loc EXCEPT ![p] = NoLoc]
    /\ pc' = [pc EXCEPT ![p] = "idle"]

\* a call may be started by an idle process
CanStart(p) == pc[p] = "idle" /\ opsLeft > 0

\* ------------------------------------- DatabaseManager._load_or_create_key
\* if os.path.exists(key_file):
KeyExists(p) ==
    /\ pc[p] = "new"
    /\ pc' = [pc EXCEPT ![p] = IF keyFile # NoFile THEN "key_read" ELSE "key_gen"]
    /\ UNCHANGED <<keyVars, current_user, loc, result, dbLock, tablesExist,
                   tableVars, ctr, supplied, added, cfgVars, opsLeft>>

\* with open(key_file, 'rb') as f: return f.read(); then Fernet(key)
KeyRead(p) ==
    /\ pc[p] = "key_read"
    /\ IF ValidKey(keyFile)
       THEN /\ encryption_key' = [encryption_key EXCEPT ![p] = keyFile]
            /\ pc' = [pc EXCEPT ![p] = "init"]
       ELSE /\ encryption_key' = encryption_key
            /\ pc' = [pc EXCEPT ![p] = "failed"]
    /\ UNCHANGED <<keyFile, keyCtr, current_user, loc, result, dbLock, tablesExist,
                   tableVars, ctr, supplied, added, cfgVars, opsLeft>>

\* key = Fernet.generate_key(); open(key_file, 'wb') creates or truncates the file
KeyGenerate(p) ==
    /\ pc[p] = "key_gen"
    /\ keyCtr' = keyCtr + 1
    /\ keyFile' = EmptyFile
    /\ loc' = [loc EXCEPT ![p].ret = keyCtr + 1]
    /\ pc' = [pc EXCEPT ![p] = "key_write"]
    /\ UNCHANGED <<encryption_key, current_user, result, dbLock, tablesExist,
                   tableVars, ctr, supplied, added, cfgVars, opsLeft>>

\* f.write(key) reaches the file when the with block closes it; return key
KeyWrite(p) ==
    /\ pc[p] = "key_write"
    /\ keyFile' = loc[p].ret
    /\ encryption_key' = [encryption_key EXCEPT ![p] = loc[p].ret]
    /\ loc' = [loc EXCEPT ![p] = NoLoc]
    /\ pc' = [pc EXCEPT ![p] = "init"]
    /\ UNCHANGED <<keyCtr, current_user, result, dbLock, tablesExist,
                   tableVars, ctr, supplied, added, cfgVars, opsLeft>>

\* ------------------ DatabaseManager.initialize_database, _create_default_admin
DefaultAdmin(salt) ==
    [id |-> NextRowId(users), username |-> "admin",
     password_hash |-> hashpw("Admin123!", salt), role |-> "admin",
     is_active |-> TRUE, last_login |-> -1]

InitializeDatabase(p) ==
    /\ pc[p] = "init"
    /\ tablesExist' = TRUE
    /\ IF UserRows("admin") = {}
       THEN /\ LockFree(p)
            /\ users' = Append(users, DefaultAdmin(ctr.salt + 1))
            /\ ctr' = [ctr EXCEPT !.salt = @ + 1]
            /\ supplied' = [supplied EXCEPT !["admin"] = "Admin123!"]
       ELSE UNCHANGED <<users, ctr, supplied>>
    /\ pc' = [pc EXCEPT ![p] = "idle"]
    /\ UNCHANGED <<keyVars, current_user, loc, result, dbLock, patients,
                   xray_images, audit_logs, usage_logs, added, cfgVars, opsLeft>>

\* ------------------------------------------- AuthManager.authenticate_user
\* the SELECT and the UPDATE of one call are one step; an UPDATE that cannot get
\* the write lock raises, and the except clause returns None
CredentialsOkIgnoringActive(username, password) ==
    /\ UserRows(username) # {}
    /\ checkpw(password, users[CHOOSE i \in UserRows(username) : TRUE].password_hash)

\* the row exists, is active and its verifier matches
CredentialsOk(username, password) ==
    /\ UserRows(username) # {}
    /\ LET row == users[CHOOSE i \in UserRows(username) : TRUE]
       IN  row.is_active /\ checkpw(password, row.password_hash)

\* LoginWindow.attempt_login is the only caller: a session makes it emit
\* login_successful, and main.py then constructs the main window
AuthenticateUser(p, username, password, now, login_time) ==
    /\ CanStart(p)
    /\ opsLeft' = opsLeft - 1
    /\ IF CredentialsOk(username, password) /\ LockFree(p)
       THEN LET i == CHOOSE i \in UserRows(username) : TRUE IN
            /\ users' = [users EXCEPT ![i].last_login = now]
            /\ current_user' = [current_user EXCEPT ![p] = UserData(users[i], login_time)]
            /\ result' = [result EXCEPT ![p] =
                             [op |-> "authenticate_user", key |-> username,
                              arg |-> password, out |-> "ok",
                              val |-> UserData(users[i], login_time)]]
            /\ loc' = [loc EXCEPT ![p] = NoLoc]
            /\ pc' = [pc EXCEPT ![p] = "login_usage"]
       ELSE /\ UNCHANGED <<users, current_user>>
            /\ Return(p, "authenticate_user", username, password, "None", <<>>)
    /\ UNCHANGED <<keyVars, dbLock, tablesExist, patients, xray_images, audit_logs,
                   usage_logs, ctr, supplied, added, cfgVars>>

\* ------------------------------------------ DatabaseManager.add_usage_log
\* INSERT INTO usage_logs (user_id, equipment_id, action, details); the columns
\* equipment_id, details and timestamp are left out: no call reads them
UsageRow(log, user_id, action) ==
    [id |-> NextRowId(log), user_id |-> user_id, action |-> action]

add_usage_log(log, user_id, action) == Append(log, UsageRow(log, user_id, action))

\* MainWindow.__init__: self.db_manager.add_usage_log(user_data['id'], "LOGIN", ...)
LoginUsageLog(p) ==
    /\ pc[p] = "login_usage"
    /\ LockFree(p)
    /\ usage_logs' = add_usage_log(usage_logs, current_user[p].id, "LOGIN")
    /\ pc' = [pc EXCEPT ![p] = "idle"]
    /\ UNCHANGED <<keyVars, current_user, loc, result, dbLock, tablesExist, users,
                   patients, xray_images, audit_logs, ctr, supplied, added, cfgVars, opsLeft>>

\* the INSERT times out on the write lock: OperationalError leaves
\* MainWindow.__init__ and the slot show_main_window, which ends the application
LoginUsageLocked(p) ==
    /\ pc[p] = "login_usage"
    /\ LockBusy(p)
    /\ pc' = [pc EXCEPT ![p] = "failed"]
    /\ UNCHANGED <<keyVars, current_user, loc, result, dbLock, tablesExist, tableVars,
                   ctr, supplied, added, cfgVars, opsLeft>>

\* AuthManager.logout
LogoutKeepsSession(p) ==
    /\ CanStart(p)
    /\ opsLeft' = opsLeft - 1
    /\ Return(p, "logout", "", "", IF current_user[p] # NoUser THEN "ok" ELSE "noop", <<>>)
    /\ UNCHANGED <<keyVars, current_user, dbLock, tablesExist, tableVars, ctr,
                   supplied, added, cfgVars>>
Logout(p) ==
    /\ CanStart(p)
    /\ opsLeft' = opsLeft - 1
    /\ current_user' = [current_user EXCEPT ![p] = NoUser]
    /\ Return(p, "logout", "", "", IF current_user[p] # NoUser THEN "ok" ELSE "noop", <<>>)
    /\ UNCHANGED <<keyVars, dbLock, tablesExist, tableVars, ctr, supplied, added, cfgVars>>

\* MainWindow.logout, answered Yes: add_usage_log(LOGOUT), auth_manager.logout()
\* and self.close(); close() raises closeEvent, which asks whether to exit: Yes
\* writes a LOGOUT entry of its own and lets the window close (the application
\* ends with its last window), No keeps the window open
MainWindowLogout(p, exit) ==
    /\ CanStart(p)
    /\ InSession(p)
    /\ opsLeft' = opsLeft - 1
    /\ IF LockBusy(p)
       THEN /\ pc' = [pc EXCEPT ![p] = "failed"]
            /\ UNCHANGED <<usage_logs, current_user, result, loc>>
       ELSE /\ usage_logs' =
                  IF exit
                  THEN add_usage_log(add_usage_log(usage_logs, current_user[p].id, "LOGOUT"),
                                     current_user[p].id, "LOGOUT")
                  ELSE add_usage_log(usage_logs, current_user[p].id, "LOGOUT")
            /\ current_user' = [current_user EXCEPT ![p] = NoUser]
            /\ result' = [result EXCEPT ![p] =
                             [op |-> "main_window_logout", key |-> current_user[p].username,
                              arg |-> "", out |-> "ok", val |-> <<>>]]
            /\ loc' = [loc EXCEPT ![p] = NoLoc]
            /\ pc' = [pc EXCEPT ![p] = IF exit THEN "exited" ELSE "idle"]
    /\ UNCHANGED <<keyVars, dbLock, tablesExist, users, patients, xray_images,
                   audit_logs, ctr, supplied, added, cfgVars>>

\* MainWindow.closeEvent of a session's window, answered Yes: add_usage_log(LOGOUT)
\* and event.accept(); auth_manager.logout() is not called. The application ends
\* with its last window.
CloseEvent(p) ==
    /\ CanStart(p)
    /\ InSession(p)
    /\ opsLeft' = opsLeft - 1
    /\ IF LockBusy(p)
       THEN /\ pc' = [pc EXCEPT ![p] = "failed"]
            /\ UNCHANGED <<usage_logs, result, loc>>
       ELSE /\ usage_logs' = add_usage_log(usage_logs, current_user[p].id, "LOGOUT")
            /\ result' = [result EXCEPT ![p] =
                             [op |-> "close_event", key |-> current_user[p].username,
                              arg |-> "", out |-> "ok", val |-> <<>>]]
            /\ loc' = [loc EXCEPT ![p] = NoLoc]
            /\ pc' = [pc EXCEPT ![p] = "exited"]
    /\ UNCHANGED <<keyVars, current_user, dbLock, tablesExist, users, patients,
                   xray_images, audit_logs, ctr, supplied, added, cfgVars>>

\* AuthManager.require_permission: the warning it logs on a denial formats
\* self.current_user['username'], which raises TypeError when current_user is None
RequirePermission(p, permission) ==
    /\ CanStart(p)
    /\ opsLeft' = opsLeft - 1
    /\ Return(p, "require_permission", permission, "",
              IF has_permission(p, permission) THEN "True"
              ELSE IF current_user[p] = NoUser THEN "TypeError"
              ELSE "False",
              <<>>)
    /\ UNCHANGED <<keyVars, current_user, dbLock, tablesExist, tableVars, ctr,
                   supplied, added, cfgVars>>

\* AuthManager.create_user
NewUser(username, password, role, salt) ==
    [id |-> NextRowId(users), username |-> username,
     password_hash |-> hashpw(password, salt), role |-> role,
     is_active |-> TRUE, last_login |-> -1]

\* users.username is UNIQUE: the INSERT raises IntegrityError on a second row
UsernameTakenNoCase(username) ==
    \E i \in 1..Len(users) : UsernameEqNoCase(users[i].username, username)
UsernameTaken(username) == UserRows(username) # {}

CreateUser(p, username, password, role) ==
    /\ CanStart(p)
    /\ opsLeft' = opsLeft - 1
    /\ IF ~has_permission(p, "add_users")
       THEN /\ UNCHANGED <<users, ctr, supplied>>
            /\ Return(p, "create_user", username, password, "denied", <<>>)
       ELSE /\ ctr' = [ctr EXCEPT !.salt = @ + 1]
            /\ IF LockBusy(p)
               THEN /\ UNCHANGED <<users, supplied>>
                    /\ Return(p, "create_user", username, password, "error", <<>>)
               ELSE IF UsernameTaken(username)
               THEN /\ UNCHANGED <<users, supplied>>
                    /\ Return(p, "create_user", username, password, "duplicate", <<>>)
               ELSE /\ users' = Append(users, NewUser(username, password, role, ctr.salt + 1))
                    /\ supplied' = [supplied EXCEPT ![username] = password]
                    /\ Return(p, "create_user", username, password, "ok", <<>>)
    /\ UNCHANGED <<keyVars, current_user, dbLock, tablesExist, patients, xray_images,
                   audit_logs, usage_logs, added, cfgVars>>

\* AuthManager.change_password
\* if not bcrypt.checkpw(old_password.encode(), current_hash): return False
OldPasswordVerifiesAlways(user_id, old_password) == UserRowsById(user_id) # {}
OldPasswordVerifies(user_id, old_password) ==
    /\ UserRowsById(user_id) # {}
    /\ checkpw(old_password, users[CHOOSE i \in UserRowsById(user_id) : TRUE].password_hash)

ChangePassword(p, user_id, old_password, new_password) ==
    /\ CanStart(p)
    /\ opsLeft' = opsLeft - 1
    /\ IF ~OldPasswordVerifies(user_id, old_password)
       THEN /\ UNCHANGED <<users, ctr, supplied>>
            /\ Return(p, "change_password", user_id, new_password, "False", <<>>)
       ELSE /\ ctr' = [ctr EXCEPT !.salt = @ + 1]
            /\ IF LockBusy(p)
               THEN /\ UNCHANGED <<users, supplied>>
                    /\ Return(p, "change_password", user_id, new_password, "False", <<>>)
               ELSE LET i == CHOOSE i \in UserRowsById(user_id) : TRUE IN
                    /\ users' = [users EXCEPT
                                   ![i].password_hash = hashpw(new_password, ctr.salt + 1)]
                    /\ supplied' = [supplied EXCEPT ![users[i].username] = new_password]
                    /\ Return(p, "change_password", user_id, new_password, "True", <<>>)
    /\ UNCHANGED <<keyVars, current_user, dbLock, tablesExist, patients, xray_images,
                   audit_logs, usage_logs, added, cfgVars>>

\* ------------------------------------- DatabaseManager._log_audit_action
\* every mutation ends by calling it on a connection of its own, after its own
\* commit; an exception it raises leaves the caller
AuditEntry(user_id, action, resource_type, resource_id) ==
    [user_id |-> user_id, action |-> action, resource_type |-> resource_type,
     resource_id |-> resource_id]

\* INSERT INTO audit_logs: id from AUTOINCREMENT, timestamp from CURRENT_TIMESTAMP
AuditRow(entry, now) ==
    [id |-> NextRowId(audit_logs), user_id |-> entry.user_id, action |-> entry.action,
     resource_type |-> entry.resource_type, resource_id |-> entry.resource_id,
     timestamp |-> now]

\* cursor.execute(INSERT INTO audit_logs ...)
LogAuditInsert(p, now) ==
    /\ pc[p] = "log_insert"
    /\ LockFree(p)
    /\ dbLock' = p
    /\ loc' = [loc EXCEPT ![p].row = AuditRow(loc[p].audit, now)]
    /\ pc' = [pc EXCEPT ![p] = "log_commit"]
    /\ UNCHANGED <<keyVars, current_user, result, tablesExist, tableVars, ctr,
                   supplied, added, cfgVars, opsLeft>>

\* the INSERT times out on the write lock: OperationalError leaves the caller
LogAuditLocked(p) ==
    /\ pc[p] = "log_insert"
    /\ LockBusy(p)
    /\ Return(p, loc[p].op, loc[p].key, "", "error", loc[p].ret)
    /\ UNCHANGED <<keyVars, current_user, dbLock, tablesExist, tableVars, ctr,
                   supplied, added, cfgVars, opsLeft>>

\* conn.commit(), and the caller returns
LogAuditCommit(p) ==
    /\ pc[p] = "log_commit"
    /\ audit_logs' = Append(audit_logs, loc[p].row)
    /\ dbLock' = 0
    /\ Return(p, loc[p].op, loc[p].key, "", "ok", loc[p].ret)
    /\ UNCHANGED <<keyVars, current_user, tablesExist, users, patients, xray_images,
                   usage_logs, ctr, supplied, added, cfgVars, opsLeft>>

\* ------------------ PatientManagementWidget.new_patient, save_patient
\* new_patient: if not self.auth_manager.has_permission('add_patients'): return
NewPatientDenied(p, patient_id) ==
    /\ CanStart(p)
    /\ InSession(p)
    /\ ~has_permission(p, "add_patients")
    /\ opsLeft' = opsLeft - 1
    /\ Return(p, "add_patient", patient_id, "", "denied", 0)
    /\ UNCHANGED <<keyVars, current_user, dbLock, tablesExist, tableVars, ctr,
                   supplied, added, cfgVars>>

\* save_patient: patient id and name are required
SavePatientInvalid(p, patient_id, name) ==
    /\ CanStart(p)
    /\ has_permission(p, "add_patients")
    /\ patient_id = "" \/ name = ""
    /\ opsLeft' = opsLeft - 1
    /\ Return(p, "add_patient", patient_id, "", "invalid", 0)
    /\ UNCHANGED <<keyVars, current_user, dbLock, tablesExist, tableVars, ctr,
                   supplied, added, cfgVars>>

\* ------------------------------------------- DatabaseManager.add_patient
PatientRow(p, patient_data, now) ==
    [id |-> NextRowId(patients), patient_id |-> patient_data.patient_id,
     encrypted_data |-> encrypt(encryption_key[p], ctr.iv + 1, dumps(patient_data)),
     created_at |-> now, updated_at |-> now]

\* patients.patient_id is UNIQUE: the INSERT raises IntegrityError on a second row
PatientIdTaken(patient_id) == PatientRows(patient_id) # {}

\* self._log_audit_action(None, "CREATE", "patient", patient_id, ...)
AddPatientAudit(p, row) == AuditEntry(Null, "CREATE", "patient", row.id)

\* encrypt, then cursor.execute(INSERT INTO patients ...): the statement takes the
\* write lock and then meets the UNIQUE constraint
AddPatient(p, patient_data, now) ==
    /\ CanStart(p)
    /\ opsLeft' = opsLeft - 1
    /\ ctr' = [ctr EXCEPT !.iv = @ + 1]
    /\ IF LockBusy(p)
       THEN /\ Return(p, "add_patient", patient_data.patient_id, "", "error", 0)
            /\ UNCHANGED <<dbLock, added>>
       ELSE /\ dbLock' = p
            /\ loc' = [loc EXCEPT ![p] =
                         [row |-> PatientRow(p, patient_data, now),
                          audit |-> <<>>, ret |-> 0, op |-> "add_patient",
                          key |-> patient_data.patient_id]]
            /\ pc' = [pc EXCEPT ![p] =
                        IF PatientIdTaken(patient_data.patient_id)
                        THEN "ap_rollback" ELSE "ap_commit"]
            /\ added' = IF PatientIdTaken(patient_data.patient_id) THEN added
                        ELSE [added EXCEPT ![patient_data.patient_id] = patient_data]
            /\ UNCHANGED result
    /\ UNCHANGED <<keyVars, current_user, tablesExist, tableVars, supplied, cfgVars>>

\* save_patient: both fields given, then self.db_manager.add_patient(patient_data)
AddPatientInsert(p, patient_id, name, now) ==
    /\ has_permission(p, "add_patients")
    /\ patient_id # "" /\ name # ""
    /\ AddPatient(p, PatientData(patient_id, name), now)

\* IntegrityError leaves the with block: the connection rolls back
AddPatientRollback(p) ==
    /\ pc[p] = "ap_rollback"
    /\ dbLock' = 0
    /\ Return(p, "add_patient", loc[p].key, "", "error", 0)
    /\ UNCHANGED <<keyVars, current_user, tablesExist, tableVars, ctr, supplied, added, cfgVars,
                   opsLeft>>

\* patient_id = cursor.lastrowid; conn.commit(); then the audit call
AddPatientCommit(p) ==
    /\ pc[p] = "ap_commit"
    /\ patients' = Append(patients, loc[p].row)
    /\ dbLock' = 0
    /\ loc' = [loc EXCEPT ![p].audit = AddPatientAudit(p, loc[p].row),
                          ![p].ret = loc[p].row.id]
    /\ pc' = [pc EXCEPT ![p] = "log_insert"]
    /\ UNCHANGED <<keyVars, current_user, result, tablesExist, users, xray_images,
                   audit_logs, usage_logs, ctr, supplied, added, cfgVars, opsLeft>>

\* ------------------------------------------- DatabaseManager.get_patient
\* no audit entry is written
GetPatient(p, patient_id) ==
    /\ CanStart(p)
    /\ InSession(p)
    /\ opsLeft' = opsLeft - 1
    /\ IF PatientRows(patient_id) = {}
       THEN Return(p, "get_patient", patient_id, "", "None", <<>>)
       ELSE LET row == patients[CHOOSE i \in PatientRows(patient_id) : TRUE] IN
            IF CanDecrypt(encryption_key[p], row.encrypted_data)
            THEN Return(p, "get_patient", patient_id, "", "ok",
                        [data |-> loads(decrypt(encryption_key[p], row.encrypted_data)),
                         id |-> row.id, created_at |-> row.created_at,
                         updated_at |-> row.updated_at])
            ELSE Return(p, "get_patient", patient_id, "", "error", <<>>)
    /\ UNCHANGED <<keyVars, current_user, dbLock, tablesExist, tableVars, ctr,
                   supplied, added, cfgVars>>

\* ---------------------------------------- DatabaseManager.search_patients
\* the characters of the strings the model uses
Chars(s) ==
    CASE s = "Jane" -> <<"J", "a", "n", "e">>
      [] s = "JAN" -> <<"J", "A", "N">>
      [] s = "P-100" -> <<"P", "-", "1", "0", "0">>
      [] s = "P-200" -> <<"P", "-", "2", "0", "0">>
      [] s = "p-1" -> <<"p", "-", "1">>
      [] OTHER -> <<>>

\* str.lower()
lowerKeepCase(s) == Chars(s)
lower(s) ==
    [i \in DOMAIN Chars(s) |->
        CASE Chars(s)[i] = "J" -> "j"
          [] Chars(s)[i] = "A" -> "a"
          [] Chars(s)[i] = "N" -> "n"
          [] Chars(s)[i] = "P" -> "p"
          [] OTHER -> Chars(s)[i]]

\* a in b, on strings
In(a, b) == \E i \in 0..(Len(b) - Len(a)) : SubSeq(b, i + 1, i + Len(a)) = a

\* patient_data.get('name', '')
NameOf(patient_data) == IF "name" \in DOMAIN patient_data THEN patient_data.name ELSE ""

\* search_term.lower() in patient_data.get('name', '').lower() or
\* search_term.lower() in row[1].lower()
TermMatches(search_term, patient_data, row) ==
    \/ In(lower(search_term), lower(NameOf(patient_data)))
    \/ In(lower(search_term), lower(row.patient_id))

\* one SELECT of every row; a row whose decryption raises is logged and skipped
SearchPatients(p, search_term) ==
    /\ CanStart(p)
    /\ opsLeft' = opsLeft - 1
    /\ LET found == SelectSeq(patients, LAMBDA row :
                        /\ CanDecrypt(encryption_key[p], row.encrypted_data)
                        /\ TermMatches(search_term,
                                       loads(decrypt(encryption_key[p], row.encrypted_data)),
                                       row))
       IN Return(p, "search_patients", search_term, "", "ok",
                 [i \in 1..Len(found) |->
                    [data |-> loads(decrypt(encryption_key[p], found[i].encrypted_data)),
                     id |-> found[i].id, patient_id |-> found[i].patient_id,
                     created_at |-> found[i].created_at,
                     updated_at |-> found[i].updated_at]])
    /\ UNCHANGED <<keyVars, current_user, dbLock, tablesExist, tableVars, ctr,
                   supplied, added, cfgVars>>

\* ---------------------------------------- DatabaseManager.add_xray_image
\* no screen calls it; the caller is taken to pass the session's own id as
\* technician_id
XrayRow(patient_id, technician_id, now) ==
    [id |-> NextRowId(xray_images), patient_id |-> patient_id,
     technician_id |-> technician_id, radiologist_id |-> Null, annotations |-> "",
     acquisition_date |-> now]

\* self._log_audit_action(technician_id, "CREATE", "xray_image", image_id, ...)
AddXrayAudit(technician_id, image_id) ==
    AuditEntry(technician_id, "CREATE", "xray_image", image_id)

AddXrayImageInsert(p, patient_id, now) ==
    /\ CanStart(p)
    /\ InSession(p)
    /\ opsLeft' = opsLeft - 1
    /\ IF LockBusy(p)
       THEN /\ Return(p, "add_xray_image", patient_id, "", "error", 0)
            /\ UNCHANGED dbLock
       ELSE /\ dbLock' = p
            /\ loc' = [loc EXCEPT ![p] =
                         [row |-> XrayRow(patient_id, current_user[p].id, now),
                          audit |-> <<>>, ret |-> 0, op |-> "add_xray_image",
                          key |-> patient_id]]
            /\ pc' = [pc EXCEPT ![p] = "ax_commit"]
            /\ UNCHANGED result
    /\ UNCHANGED <<keyVars, current_user, tablesExist, tableVars, ctr, supplied, added, cfgVars>>

AddXrayImageCommit(p) ==
    /\ pc[p] = "ax_commit"
    /\ xray_images' = Append(xray_images, loc[p].row)
    /\ dbLock' = 0
    /\ loc' = [loc EXCEPT ![p].audit = AddXrayAudit(loc[p].row.technician_id, loc[p].row.id),
                          ![p].ret = loc[p].row.id]
    /\ pc' = [pc EXCEPT ![p] = "log_insert"]
    /\ UNCHANGED <<keyVars, current_user, result, tablesExist, users, patients,
                   audit_logs, usage_logs, ctr, supplied, added, cfgVars, opsLeft>>

\* -------------------------------- DatabaseManager.update_image_annotations
\* UPDATE xray_images SET annotations = ?, radiologist_id = ? WHERE id = ?
\* the audit call follows whether or not a row matched
Annotated(images, image_id, annotations, user_id) ==
    [i \in 1..Len(images) |->
        IF images[i].id = image_id
        THEN [images[i] EXCEPT !.annotations = annotations, !.radiologist_id = user_id]
        ELSE images[i]]

\* self._log_audit_action(user_id, "UPDATE", "xray_image", image_id, ...)
UpdateAnnotationsAudit(user_id, image_id) ==
    AuditEntry(user_id, "UPDATE", "xray_image", image_id)

UpdateImageAnnotationsExecute(p, image_id, annotations) ==
    /\ CanStart(p)
    /\ InSession(p)
    /\ opsLeft' = opsLeft - 1
    /\ IF LockBusy(p)
       THEN /\ Return(p, "update_image_annotations", image_id, "", "error", 0)
            /\ UNCHANGED dbLock
       ELSE /\ dbLock' = p
            /\ loc' = [loc EXCEPT ![p] =
                         [row |-> [image_id |-> image_id, annotations |-> annotations,
                                   user_id |-> current_user[p].id],
                          audit |-> <<>>, ret |-> 0, op |-> "update_image_annotations",
                          key |-> image_id]]
            /\ pc' = [pc EXCEPT ![p] = "ua_commit"]
            /\ UNCHANGED result
    /\ UNCHANGED <<keyVars, current_user, tablesExist, tableVars, ctr, supplied, added, cfgVars>>

UpdateImageAnnotationsCommit(p) ==
    /\ pc[p] = "ua_commit"
    /\ xray_images' = Annotated(xray_images, loc[p].row.image_id, loc[p].row.annotations,
                                loc[p].row.user_id)
    /\ dbLock' = 0
    /\ loc' = [loc EXCEPT ![p].audit =
                               UpdateAnnotationsAudit(loc[p].row.user_id, loc[p].row.image_id),
                          ![p].ret = 0]
    /\ pc' = [pc EXCEPT ![p] = "log_insert"]
    /\ UNCHANGED <<keyVars, current_user, result, tablesExist, users, patients,
                   audit_logs, usage_logs, ctr, supplied, added, cfgVars, opsLeft>>

\* ----------------------------------------- DatabaseManager.get_audit_logs
\* ORDER BY al.timestamp DESC LIMIT ?: the rows with the latest timestamps, latest
\* first; SQL leaves the order of rows with equal timestamps open
Min(a, b) == IF a < b THEN a ELSE b

\* s lists row positions of audit_logs in an order the query may return
OrderedById(s, limit) ==
    /\ Len(s) = Min(limit, Len(audit_logs))
    /\ \A i \in 1..Len(s) : s[i] = i
OrderedByTimestampDesc(s, limit) ==
    /\ Len(s) = Min(limit, Len(audit_logs))
    /\ \A i, j \in 1..Len(s) : i # j => s[i] # s[j]
    /\ \A i, j \in 1..Len(s) :
          i < j => audit_logs[s[i]].timestamp >= audit_logs[s[j]].timestamp
    /\ \A k \in 1..Len(audit_logs) :
          k \notin SeqToSet(s) =>
             \A i \in 1..Len(s) : audit_logs[s[i]].timestamp >= audit_logs[k].timestamp

\* LEFT JOIN users u ON al.user_id = u.id; 'username': row[1] or 'System'
AuditUsername(user_id) ==
    IF UserRowsById(user_id) = {} THEN "System"
    ELSE users[CHOOSE i \in UserRowsById(user_id) : TRUE].username

AuditView(row) ==
    [id |-> row.id, username |-> AuditUsername(row.user_id), action |-> row.action,
     resource_type |-> row.resource_type, resource_id |-> row.resource_id,
     timestamp |-> row.timestamp]

\* the admin panel exists for a session that holds system_admin
GetAuditLogs(p, limit) ==
    /\ CanStart(p)
    /\ has_permission(p, "system_admin")
    /\ opsLeft' = opsLeft - 1
    /\ \E s \in UNION {[1..k -> 1..Len(audit_logs)] : k \in {Min(limit, Len(audit_logs))}} :
          /\ OrderedByTimestampDesc(s, limit)
          /\ Return(p, "get_audit_logs", "", limit, "ok",
                    [i \in 1..Len(s) |-> AuditView(audit_logs[s[i]])])
    /\ UNCHANGED <<keyVars, current_user, dbLock, tablesExist, tableVars, ctr,
                   supplied, added, cfgVars>>

\* ------------------------------------------------------------ main.py
\* the application is closed, or has ended on a fatal error, and is started again
Restart(p) ==
    /\ pc[p] \in {"idle", "failed"}
    /\ opsLeft > 0
    /\ opsLeft' = opsLeft - 1
    /\ pc' = [pc EXCEPT ![p] = "new"]
    /\ encryption_key' = [encryption_key EXCEPT ![p] = NoKey]
    /\ current_user' = [current_user EXCEPT ![p] = NoUser]
    /\ loc' = [loc EXCEPT ![p] = NoLoc]
    /\ result' = [result EXCEPT ![p] = [NoResult EXCEPT !.op = "restart"]]
    /\ UNCHANGED <<keyFile, keyCtr, dbLock, tablesExist, tableVars, ctr, supplied,
                   added, cfgVars>>

\* ------------------------------------------------------------------- Next
ImageIds == {1, 2}
Limits == {1, 50}
UserIds == {1, 2}

\* DatabaseManager() and initialize_database(), as main.py runs them at start-up
Startup(p) ==
    \/ KeyExists(p)
    \/ KeyRead(p)
    \/ KeyGenerate(p)
    \/ KeyWrite(p)
    \/ InitializeDatabase(p)

\* the calls on patients, images and the audit log
DataCalls(p) ==
    \/ \E pid \in PatientIds, n \in Names : SavePatientInvalid(p, pid, n)
    \/ \E pid \in PatientIds, n \in Names, t \in Times : AddPatientInsert(p, pid, n, t)
    \/ AddPatientRollback(p)
    \/ AddPatientCommit(p)
    \/ \E pid \in PatientIds : GetPatient(p, pid)
    \/ \E t \in Times : AddXrayImageInsert(p, 1, t)
    \/ AddXrayImageCommit(p)
    \/ \E im \in ImageIds : UpdateImageAnnotationsExecute(p, im, "a1")
    \/ UpdateImageAnnotationsCommit(p)
    \/ \E t \in Times : LogAuditInsert(p, t)
    \/ LogAuditCommit(p)
    \/ \E l \in Limits : GetAuditLogs(p, l)

\* the calls on identities and sessions, with the roles the dialog offers and
\* one reading of the clock per login
AuthCalls(p) ==
    \/ \E u \in Usernames, pw \in Passwords, t \in Times : AuthenticateUser(p, u, pw, t, t)
    \/ LoginUsageLog(p)
    \/ Logout(p)
    \/ \E u \in Usernames, pw \in Passwords, r \in CreateRoles : CreateUser(p, u, pw, r)
    \/ \E id \in UserIds, old \in Passwords, new \in Passwords :
          ChangePassword(p, id, old, new)
    \/ \E pid \in PatientIds : NewPatientDenied(p, pid)

\* every call of AuthManager and the main window's logout, with any role string
SessionCalls(p) ==
    \/ \E u \in Usernames, pw \in Passwords, t \in Times, lt \in Times :
          AuthenticateUser(p, u, pw, t, lt)
    \/ LoginUsageLog(p)
    \/ Logout(p)
    \/ \E exit \in BOOLEAN : MainWindowLogout(p, exit)
    \/ CloseEvent(p)
    \/ \E perm \in PermissionNames : RequirePermission(p, perm)
    \/ \E u \in Usernames, pw \in Passwords, r \in AnyRoles : CreateUser(p, u, pw, r)
    \/ \E id \in UserIds, old \in Passwords, new \in Passwords :
          ChangePassword(p, id, old, new)

\* several processes on one key file and one database: every process logs in as
\* the default administrator and works on patients, images and the audit log
Next ==
    \/ \E p \in Procs : Startup(p)
    \/ \E p \in Procs, t \in Times : AuthenticateUser(p, "admin", "Admin123!", t, t)
    \/ \E p \in Procs : LoginUsageLog(p)
    \/ \E p \in Procs : LoginUsageLocked(p)
    \/ \E p \in Procs : DataCalls(p)
    \/ \E p \in Procs : LogAuditLocked(p)

\* one process alone, with every call
SeqNext ==
    \/ Startup(1)
    \/ AuthCalls(1)
    \/ DataCalls(1)

\* one process alone on identities and sessions
AuthNext == SessionCalls(1)

\* the data calls of several logged-in processes
LedgerNext ==
    \/ \E p \in Procs : DataCalls(p)
    \/ \E p \in Procs : LogAuditLocked(p)

\* DatabaseManager's calls on patients with any payload: both fields, an empty
\* name, and the patient_id alone; every call reads the clock as 0
Payloads ==
    {PatientData("P-100", n) : n \in Names}
       \cup {PatientData("P-200", "Jane"), [patient_id |-> "P-200"]}
SearchTerms == {"", "JAN", "p-1"}

RecordCalls(p) ==
    \/ \E d \in Payloads : AddPatient(p, d, 0)
    \/ AddPatientRollback(p)
    \/ AddPatientCommit(p)
    \/ LogAuditInsert(p, 0)
    \/ LogAuditLocked(p)
    \/ LogAuditCommit(p)
    \/ \E pid \in PatientIds : GetPatient(p, pid)
    \/ \E term \in SearchTerms : SearchPatients(p, term)

RecordNext == \E p \in Procs : RecordCalls(p)

\* processes start, end and start again, and passwords are changed in between
StartNext ==
    \/ \E p \in Procs : Startup(p)
    \/ \E p \in Procs : Restart(p)
    \/ \E p \in Procs, id \in UserIds, old \in Passwords, new \in Passwords :
          ChangePassword(p, id, old, new)

\* the settings: keys into a section, onto a section, through a value and into
\* a new section; a string, a dict, a tuple and a set as values
ConfigKeys == {"ui", "ui.theme", "ui.language", "ui.theme.x", "test.key"}
ConfigValues ==
    {Str("dark"), Dict([k \in {"theme"} |-> Str("dark")]),
     Tuple(<<Num("800"), Num("600")>>), PySet}

ConfigNext ==
    \/ ConfigNew
    \/ \E key \in ConfigKeys, value \in ConfigValues : ConfigSet(key, value)
    \/ ConfigRestart

Spec == Init /\ [][Next]_vars
LedgerSpec == LedgerInit /\ [][LedgerNext]_vars
SeqSpec == SeqInit /\ [][SeqNext]_vars
AuthSpec == AuthInit /\ [][AuthNext]_vars
RecordSpec == RecordInit /\ [][RecordNext]_vars
StartSpec == StartInit /\ [][StartNext]_vars
ConfigSpec == ConfigInit /\ [][ConfigNext]_vars

\* ------------------------------------------------------------- predicates
\* process p is inside a call
InCall(p) ==
    pc[p] \in {"ap_commit", "ap_rollback", "ax_commit", "ua_commit", "log_insert",
               "log_commit"}
Quiescent == \A p \in Procs : ~InCall(p)

\* the audit entries with this verb for this resource
AuditEntries(action, resource_type, resource_id) ==
    {i \in 1..Len(audit_logs) :
        /\ audit_logs[i].action = action
        /\ audit_logs[i].resource_type = resource_type
        /\ audit_logs[i].resource_id = resource_id}

\* ----------------------------------------------------------------- C1
\* C1: the data write of add_patient, add_xray_image and update_image_annotations
\* and its audit entry are persisted together or not at all: once no call is in
\* flight, every patient and image row has its CREATE entry, every annotated
\* image its UPDATE entry, and every CREATE entry its row.
C1_DataAndAuditTogether ==
    Quiescent =>
       /\ \A i \in 1..Len(patients) :
             AuditEntries("CREATE", "patient", patients[i].id) # {}
       /\ \A i \in 1..Len(xray_images) :
             /\ AuditEntries("CREATE", "xray_image", xray_images[i].id) # {}
             /\ xray_images[i].radiologist_id # Null =>
                   AuditEntries("UPDATE", "xray_image", xray_images[i].id) # {}
       /\ \A j \in 1..Len(audit_logs) :
             audit_logs[j].action = "CREATE" =>
                \E i \in 1..Len(IF audit_logs[j].resource_type = "patient"
                                 THEN patients ELSE xray_images) :
                   (IF audit_logs[j].resource_type = "patient"
                    THEN patients ELSE xray_images)[i].id = audit_logs[j].resource_id

\* ----------------------------------------------------------------- C2
\* C2: a new-patient request by a session whose role lacks add_patients is
\* denied, leaves the patients table unchanged and appends exactly one
\* PERMISSION_DENIED audit entry.
C2_DenialAudited ==
    [][\A p \in Procs, pid \in PatientIds :
          NewPatientDenied(p, pid) =>
             /\ result'[p].out = "denied"
             /\ patients' = patients
             /\ Len(audit_logs') = Len(audit_logs) + 1
             /\ audit_logs'[Len(audit_logs')].action = "PERMISSION_DENIED"]_vars

\* ----------------------------------------------------------------- C3
\* C3: add_patient(P) followed by get_patient(P) leaves two audit entries for P,
\* CREATE and then READ: whenever get_patient has returned a record, the ledger
\* holds a READ entry for it after its CREATE entry.
C3_ReadAudited ==
    \A p \in Procs :
       (result[p].op = "get_patient" /\ result[p].out = "ok") =>
          \E i, j \in 1..Len(audit_logs) :
             /\ i < j
             /\ i \in AuditEntries("CREATE", "patient", result[p].val.id)
             /\ j \in AuditEntries("READ", "patient", result[p].val.id)

\* ----------------------------------------------------------------- C4
\* C4: every audit entry of a mutation made in an authenticated session (every
\* mutation of the model is) records the acting identity: no CREATE or UPDATE
\* entry has a null user_id.
C4_MutationsAttributed ==
    \A i \in 1..Len(audit_logs) :
       audit_logs[i].action \in {"CREATE", "UPDATE"} => audit_logs[i].user_id # Null

\* ----------------------------------------------------------------- C5
\* C5: key material is created at most once: once no process is inside
\* _load_or_create_key, every DatabaseManager that has loaded its key holds the
\* content of the key file, and so all of them hold one key.
InKeyLoad(p) == pc[p] \in {"key_read", "key_gen", "key_write"}

C5_OneKey ==
    (\A p \in Procs : ~InKeyLoad(p)) =>
       \A p \in Procs :
          encryption_key[p] # NoKey =>
             /\ encryption_key[p] = keyFile
             /\ \A q \in Procs :
                   encryption_key[q] # NoKey => encryption_key[q] = encryption_key[p]

\* ----------------------------------------------------------------- C6
\* C6: the audit ledger only grows: every step keeps the entries already present
\* as they are, and every entry it appends has an id greater than all of theirs.
C6_LedgerAppendOnly ==
    [][/\ Len(audit_logs') >= Len(audit_logs)
       /\ \A i \in 1..Len(audit_logs) : audit_logs'[i] = audit_logs[i]
       /\ \A j \in (Len(audit_logs) + 1)..Len(audit_logs') :
             \A i \in 1..Len(audit_logs) : audit_logs'[j].id > audit_logs[i].id]_vars

\* two processes have each appended an entry, the second above the first
C6_Witness ==
    /\ Len(audit_logs) >= 2
    /\ audit_logs[2].id > audit_logs[1].id
    /\ \A p \in Procs : result[p].op = "add_patient" /\ result[p].out = "ok"

\* ----------------------------------------------------------------- C7
\* C7: concurrent appends are serialized: in every reachable state the ids of the
\* ledger are exactly 1..n for its n entries, in append order, each id on exactly
\* one entry (an append that times out on the write lock raises and takes no id).
C7_GapFree ==
    \A i \in 1..Len(audit_logs) : audit_logs[i].id = i

\* two processes append at once: one holds the write lock with its id assigned
\* and the other waits for the lock
C7_Witness ==
    \E p, q \in Procs :
       /\ pc[p] = "log_commit"
       /\ pc[q] = "log_insert"
       /\ loc[p].row.id = Len(audit_logs) + 1

\* ----------------------------------------------------------------- C8
\* C8 as claimed: get_audit_logs returns the entries in ascending sequence
\* order, whatever their timestamps.
C8_AscendingBySequence ==
    \A p \in Procs :
       result[p].op = "get_audit_logs" =>
          \A i, j \in 1..Len(result[p].val) :
             i < j => result[p].val[i].id < result[p].val[j].id

\* C8 as amended: get_audit_logs(limit) returns min(limit, n) distinct entries
\* of the ledger, latest timestamp first, and no entry left out has a later
\* timestamp than one returned: the timestamp decides the order and the cut,
\* not the sequence position.
C8_LatestTimestampFirst ==
    \A p \in Procs :
       result[p].op = "get_audit_logs" =>
          LET v == result[p].val
              returned == {v[i].id : i \in 1..Len(v)}
          IN  /\ Len(v) = Min(result[p].arg, Len(audit_logs))
              /\ \A i, j \in 1..Len(v) : i # j => v[i].id # v[j].id
              /\ \A i \in 1..Len(v) :
                    \E k \in 1..Len(audit_logs) :
                       /\ audit_logs[k].id = v[i].id
                       /\ audit_logs[k].timestamp = v[i].timestamp
                       /\ audit_logs[k].action = v[i].action
              /\ \A i, j \in 1..Len(v) : i < j => v[i].timestamp >= v[j].timestamp
              /\ \A k \in 1..Len(audit_logs) :
                    audit_logs[k].id \notin returned =>
                       \A i \in 1..Len(v) : v[i].timestamp >= audit_logs[k].timestamp

\* two entries with different timestamps come back, the later-stamped second
\* entry before the first
C8_Witness ==
    /\ result[1].op = "get_audit_logs"
    /\ Len(result[1].val) = 2
    /\ result[1].val[1].id = 2 /\ result[1].val[2].id = 1
    /\ result[1].val[1].timestamp > result[1].val[2].timestamp

\* ----------------------------------------------------------------- C9
\* C9: after concurrent add_patient calls with one patient_id (every process
\* made one, and all have ended) exactly one record has that id, at most one
\* call reports success and exactly one CREATE audit entry refers to the record.
C9_OneRecordOneCreate ==
    \A pid \in PatientIds :
       (/\ Quiescent
        /\ \A p \in Procs :
              /\ result[p].op = "add_patient"
              /\ result[p].key = pid
              /\ result[p].out \in {"ok", "error"}) =>
          /\ Cardinality(PatientRows(pid)) = 1
          /\ Cardinality({p \in Procs : result[p].out = "ok"}) <= 1
          /\ \A i \in PatientRows(pid) :
                Cardinality(AuditEntries("CREATE", "patient", patients[i].id)) = 1

\* ----------------------------------------------------------------- C10
\* C10: authenticate_user(u, p) succeeds iff p is the password supplied at the
\* last successful creation of, or password change for, the identity named
\* exactly u (the default administrator is created with its default password).
C10_VerifiesLatestPassword ==
    \A p \in Procs :
       result[p].op = "authenticate_user" =>
          (result[p].out = "ok" <=> supplied[result[p].key] = result[p].arg)

\* the administrator logs in with a password set by change_password
C10_Witness ==
    /\ result[1].op = "authenticate_user"
    /\ result[1].out = "ok"
    /\ result[1].key = "admin"
    /\ result[1].arg = "pw1"

\* ----------------------------------------------------------------- C11
\* C11: change_password(id, old, new) replaces the stored verifier only if old
\* verifies against the current one, and then new verifies; otherwise it returns
\* False and the users table is as it was, so every identity authenticates with
\* exactly the passwords it authenticated with before (the previous password
\* still does, new does not unless it did already).
C11_VerifyThenReplace ==
    [][\A p \in Procs, id \in UserIds, old \in Passwords, new \in Passwords :
          (/\ result'[p].op = "change_password"
           /\ result'[p].key = id
           /\ result'[p].arg = new
           /\ ChangePassword(p, id, old, new)) =>
             IF \E i \in UserRowsById(id) : checkpw(old, users[i].password_hash)
             THEN /\ result'[p].out = "True"
                  /\ \A i \in UserRowsById(id) :
                        /\ checkpw(new, users'[i].password_hash)
                        /\ \A j \in 1..Len(users) :
                              j # i => users'[j] = users[j]
             ELSE /\ result'[p].out = "False"
                  /\ users' = users
                  /\ \A u \in Usernames, pw \in Passwords :
                        CredentialsOk(u, pw)' <=> CredentialsOk(u, pw)]_vars

\* a change of the administrator's password with a wrong old password has
\* returned False: the default password still verifies and the new one does not
C11_Witness ==
    /\ result[1].op = "change_password"
    /\ result[1].key = 1
    /\ result[1].arg = "pw1"
    /\ result[1].out = "False"
    /\ checkpw("Admin123!", users[1].password_hash)
    /\ ~checkpw("pw1", users[1].password_hash)

\* ----------------------------------------------------------------- C12
\* C12: every authentication event is recorded in the audit ledger: once a call
\* of authenticate_user has ended (and the main window is up, if it succeeded)
\* the ledger holds a LOGIN_SUCCESS entry for a session and a LOGIN_FAILURE
\* entry for a failure, and once a logout has ended it holds a LOGIN_END entry.
AuditActions == {audit_logs[i].action : i \in 1..Len(audit_logs)}

C12_AuthEventsAudited ==
    \A p \in Procs :
       pc[p] \in {"idle", "exited"} =>
          /\ (result[p].op = "authenticate_user" /\ result[p].out = "ok") =>
                "LOGIN_SUCCESS" \in AuditActions
          /\ (result[p].op = "authenticate_user" /\ result[p].out = "None") =>
                "LOGIN_FAILURE" \in AuditActions
          /\ (result[p].op \in {"logout", "main_window_logout"} /\ result[p].out = "ok") =>
                "LOGIN_END" \in AuditActions

\* ----------------------------------------------------------------- C13
\* C13: authenticate_user gives one and the same outcome for an unknown
\* username, an inactive identity and a wrong password: it returns None with
\* no session data, sets no current user and writes nothing, so neither the
\* return value nor the login window's message tells the three causes apart.
UnknownUsername(username) == \A i \in 1..Len(users) : users[i].username # username
InactiveIdentity(username) ==
    \E i \in 1..Len(users) : users[i].username = username /\ ~users[i].is_active
WrongPassword(username, password) ==
    \E i \in 1..Len(users) :
       users[i].username = username /\ ~checkpw(password, users[i].password_hash)

C13_OneFailureOutcome ==
    [][\A p \in Procs, u \in Usernames, pw \in Passwords, t \in Times, lt \in Times :
          (/\ result'[p].op = "authenticate_user"
           /\ result'[p].key = u
           /\ result'[p].arg = pw
           /\ AuthenticateUser(p, u, pw, t, lt)
           /\ UnknownUsername(u) \/ InactiveIdentity(u) \/ WrongPassword(u, pw)) =>
             /\ result'[p] = [op |-> "authenticate_user", key |-> u, arg |-> pw,
                              out |-> "None", val |-> <<>>]
             /\ pc'[p] = "idle"
             /\ current_user' = current_user
             /\ tableVars' = tableVars]_vars

\* the deactivated identity alice has given her right password and got None
C13_Witness ==
    /\ result[1] = [op |-> "authenticate_user", key |-> "alice", arg |-> "pw1",
                    out |-> "None", val |-> <<>>]
    /\ InactiveIdentity("alice")
    /\ ~WrongPassword("alice", "pw1")

\* ----------------------------------------------------------------- C14
\* C14: a successful authenticate_user returns a session with the identity's id
\* and role and the issue time, makes it the current user, and sets that
\* identity's last_login; apart from last_login no row of users changes.
C14_SessionOnSuccess ==
    [][\A p \in Procs, u \in Usernames, pw \in Passwords, t \in Times, lt \in Times :
          (/\ result'[p].op = "authenticate_user"
           /\ result'[p].out = "ok"
           /\ result'[p].key = u
           /\ result'[p].arg = pw
           /\ AuthenticateUser(p, u, pw, t, lt)) =>
             \E i \in 1..Len(users) :
                /\ users[i].username = u
                /\ result'[p].val.id = users[i].id
                /\ result'[p].val.role = users[i].role
                /\ result'[p].val.login_time = lt
                /\ current_user'[p] = result'[p].val
                /\ \A q \in Procs : q # p => current_user'[q] = current_user[q]
                /\ users' = [users EXCEPT ![i].last_login = t]]_vars

\* the administrator has logged in at time 1 with a session issued at 0, and
\* alice's row is as it was
C14_Witness ==
    /\ result[1].op = "authenticate_user"
    /\ result[1].out = "ok"
    /\ current_user[1] = [id |-> 1, username |-> "admin", role |-> "admin", login_time |-> 0]
    /\ users[1].last_login = 1
    /\ users[2] = LeftAlice

\* ----------------------------------------------------------------- C15
\* C15: logout ends the session: it leaves no current user, and without a
\* current user has_permission is false for every permission and create_user
\* is refused with the users table unchanged; only a successful
\* authenticate_user sets a current user again, and a logout without a current
\* session changes nothing.
AllPermissionNames == PermissionNames \cup UNION {Permissions(r) : r \in AnyRoles}

C15_LogoutEndsSession ==
    [][\A p \in Procs :
          /\ (Logout(p) \/ \E exit \in BOOLEAN : MainWindowLogout(p, exit)) =>
                current_user'[p] = NoUser
          /\ (Logout(p) /\ current_user[p] = NoUser) =>
                /\ current_user' = current_user
                /\ tableVars' = tableVars
                /\ keyVars' = keyVars
          /\ current_user'[p] = NoUser =>
                \A perm \in AllPermissionNames : ~has_permission(p, perm)'
          /\ \A u \in Usernames, pw \in Passwords, r \in AnyRoles :
                (/\ current_user[p] = NoUser
                 /\ result'[p].op = "create_user"
                 /\ result'[p].key = u
                 /\ result'[p].arg = pw
                 /\ CreateUser(p, u, pw, r)) =>
                   /\ result'[p].out = "denied"
                   /\ users' = users
          /\ (current_user[p] = NoUser /\ current_user'[p] # NoUser) =>
                /\ result'[p].op = "authenticate_user"
                /\ result'[p].out = "ok"]_vars

\* the administrator has logged in (at time 1) and out again, and create_user
\* has then been refused
C15_Witness ==
    /\ users[1].last_login = 1
    /\ current_user[1] = NoUser
    /\ result[1].op = "create_user"
    /\ result[1].out = "denied"
    /\ Len(users) = 2

\* ----------------------------------------------------------------- C16
\* C16: has_permission(perm) is true only if there is a current session, its role
\* is one of the roles of the table, and perm is in that role's set: without a
\* session, for a role the table does not know, or for a permission the role
\* does not list, it is false.
Roles == {"admin", "radiologist", "technician"}

C16_FailClosed ==
    \A p \in Procs, perm \in AllPermissionNames :
       has_permission(p, perm) <=>
          /\ current_user[p] # NoUser
          /\ current_user[p].role \in Roles
          /\ perm \in Permissions(current_user[p].role)

\* a session whose role the table does not know has asked for a permission
\* and been denied
C16_Witness ==
    /\ current_user[1] # NoUser
    /\ current_user[1].role = "guest"
    /\ result[1].op = "require_permission"
    /\ result[1].key = "add_patients"
    /\ result[1].out = "False"

\* ----------------------------------------------------------------- C17
\* C17: require_permission(perm) ends with a grant when has_permission(perm) is
\* true and with a denial when it is false, also without a session, and never
\* with any other error.
C17_DenialOrGrant ==
    \A p \in Procs :
       result[p].op = "require_permission" =>
          /\ result[p].out \in {"True", "False"}
          /\ result[p].out = "True" <=> has_permission(p, result[p].key)

\* ----------------------------------------------------------------- C18
\* C18: create_user adds an identity only in a session whose role holds add_users
\* (the administrator's): without a session or with another role it is refused
\* and the users table is unchanged; and no step of any operation removes an
\* identity or gives a row another id or username.
C18_OnlyAdminAddsIdentities ==
    [][/\ \A p \in Procs, u \in Usernames, pw \in Passwords, r \in AnyRoles :
             (/\ current_user[p] = NoUser \/ current_user[p].role # "admin"
              /\ result'[p].op = "create_user"
              /\ result'[p].key = u
              /\ result'[p].arg = pw
              /\ CreateUser(p, u, pw, r)) =>
                /\ result'[p].out = "denied"
                /\ users' = users
       /\ Len(users') >= Len(users)
       /\ \A i \in 1..Len(users) :
             /\ users'[i].id = users[i].id
             /\ users'[i].username = users[i].username]_vars

\* a radiologist's session has asked for a new identity and been refused
C18_Witness ==
    /\ current_user[1] # NoUser
    /\ current_user[1].role = "radiologist"
    /\ result[1].op = "create_user"
    /\ result[1].out = "denied"
    /\ Len(users) = 2

\* ----------------------------------------------------------------- C19
\* C19: create_user by an administrator with a username some identity has
\* exactly fails as a duplicate and leaves the users table as it was; with a
\* username no identity has exactly - also one that differs from an existing
\* one only in case - it appends a new identity and changes no other row.
C19_DuplicateUsername ==
    [][\A p \in Procs, u \in Usernames, pw \in Passwords, r \in AnyRoles :
          (/\ current_user[p] # NoUser
           /\ current_user[p].role = "admin"
           /\ result'[p].op = "create_user"
           /\ result'[p].key = u
           /\ result'[p].arg = pw
           /\ CreateUser(p, u, pw, r)) =>
             IF \E i \in 1..Len(users) : users[i].username = u
             THEN /\ result'[p].out = "duplicate"
                  /\ users' = users
             ELSE /\ result'[p].out = "ok"
                  /\ Len(users') = Len(users) + 1
                  /\ users'[Len(users')].username = u
                  /\ users'[Len(users')].role = r
                  /\ \A i \in 1..Len(users) : users'[i] = users[i]]_vars

\* alice and Alice are two identities, and a second alice has been refused
\* with alice's row as it was
C19_Witness ==
    /\ Len(users) = 3
    /\ users[2] = LeftAlice
    /\ users[3].username = "Alice"
    /\ result[1].op = "create_user"
    /\ result[1].key = "alice"
    /\ result[1].out = "duplicate"

\* ----------------------------------------------------------------- C20
\* C20: in every reachable state the role of every stored identity is one of
\* admin, radiologist, technician, and the table gives it a non-empty
\* permission set.
C20_RolesEnumerated ==
    \A i \in 1..Len(users) :
       /\ users[i].role \in Roles
       /\ Permissions(users[i].role) # {}

\* ----------------------------------------------------------------- C21
\* C21: add_patient with a patient_id that already exists replaces the stored
\* ciphertext of that id and appends one UPDATE audit entry; with a fresh
\* patient_id it creates the record and appends one CREATE entry.
C21_UpdateOrCreate ==
    [][\A p \in Procs :
          /\ AddPatientRollback(p) =>
                /\ \A i \in PatientRows(loc[p].key) :
                      patients'[i].encrypted_data = loc[p].row.encrypted_data
                /\ Len(audit_logs') = Len(audit_logs) + 1
                /\ audit_logs'[Len(audit_logs')].action = "UPDATE"
          /\ (loc[p].op = "add_patient" /\ LogAuditCommit(p)) =>
                /\ Cardinality(PatientRows(loc[p].key)) = 1
                /\ Len(audit_logs') = Len(audit_logs) + 1
                /\ audit_logs'[Len(audit_logs')].action = "CREATE"
                /\ \A i \in PatientRows(loc[p].key) :
                      audit_logs'[Len(audit_logs')].resource_id = patients[i].id]_vars

C23_CorruptKeyFails ==
    [][\A p \in Procs :
          (/\ pc[p] = "key_read"
           /\ keyFile \in {EmptyFile, TruncatedFile}
           /\ KeyRead(p)) =>
             /\ pc'[p] = "failed"
             /\ encryption_key'[p] = NoKey
             /\ keyCtr' = keyCtr
             /\ keyFile' = keyFile]_vars

\* a process has failed on a key file cut short, left over with a database, and
\* has failed again when started again
C23_Witness ==
    /\ keyFile = TruncatedFile
    /\ keyCtr = 1
    /\ pc[1] = "failed"
    /\ encryption_key[1] = NoKey
    /\ pc[2] = "new"
    /\ opsLeft < MaxStartOps
    /\ patients = <<LeftPatient>>

\* ----------------------------------------------------------------- C24
\* the records a search term is to find, worked out by hand for the terms and
\* payloads of the model: '' is in every string, 'JAN' is in the name Jane
\* whatever the case, 'p-1' is in the patient_id P-100
TermFinds(term, payload, patient_id) ==
    CASE term = "" -> TRUE
      [] term = "JAN" -> payload \in {PatientData("P-100", "Jane"), PatientData("P-200", "Jane")}
      [] term = "p-1" -> patient_id = "P-100"
      [] OTHER -> FALSE

\* C24: search_patients(term) never fails and returns, in table order, exactly
\* the committed records the instance can decrypt whose name or patient_id
\* contains term whatever the case (all of them for the empty term), each with
\* the payload that was put; a record sealed under another key is left out, and
\* no record is changed - also while another instance is inside add_patient.
C24_SearchExact ==
    [][\A p \in Procs, term \in SearchTerms :
          (/\ result'[p].op = "search_patients"
           /\ result'[p].key = term
           /\ SearchPatients(p, term)) =>
             LET expected == SelectSeq(patients, LAMBDA row :
                                /\ row.encrypted_data.key = encryption_key[p]
                                /\ TermFinds(term, added[row.patient_id], row.patient_id))
             IN /\ result'[p].out = "ok"
                /\ Len(result'[p].val) = Len(expected)
                /\ \A i \in 1..Len(expected) :
                      /\ result'[p].val[i].id = expected[i].id
                      /\ result'[p].val[i].patient_id = expected[i].patient_id
                      /\ result'[p].val[i].data = added[expected[i].patient_id]
                /\ patients' = patients]_vars

\* a search for JAN has returned the instance's own Jane and left out the Jane
\* another instance sealed under its own key, while that instance was still
\* inside add_patient
C24_Witness ==
    /\ Len(patients) = 2
    /\ patients[2].encrypted_data.key # encryption_key[1]
    /\ added[patients[2].patient_id] = PatientData("P-100", "Jane")
    /\ pc[2] = "log_insert"
    /\ result[1].op = "search_patients"
    /\ result[1].key = "JAN"
    /\ Len(result[1].val) = 1
    /\ result[1].val[1].data = PatientData("P-200", "Jane")

\* ----------------------------------------------------------------- C25
\* neither key is the other or leads to the other
Unrelated(k1, k2) ==
    LET a == Split(k1)
        b == Split(k2)
        n == IF Len(a) < Len(b) THEN Len(a) ELSE Len(b)
    IN SubSeq(a, 1, n) # SubSeq(b, 1, n)

\* C25: after config.set(k, v) has returned, config.get(k) is v, a Config loaded
\* afresh from the same file also gives v for k, and every key that is neither
\* k nor above or below k gives what it gave before.
C25_SetGetReload ==
    [][\A k \in ConfigKeys, v \in ConfigValues :
          (ConfigSet(k, v) /\ ~SetRaises(config_data, Split(k))) =>
             /\ get(config_data', k, None) = v
             /\ get(load_config(config_file'), k, None) = v
             /\ \A k2 \in ConfigKeys :
                   Unrelated(k, k2) =>
                      /\ get(config_data', k2, None) = get(config_data, k2, None)
                      /\ get(load_config(config_file'), k2, None)
                            = get(load_config(config_file), k2, None)]_vars

\* ----------------------------------------------------------------- C26
\* C26: in every reachable state every stored patient record is sealed under
\* the key the key file holds, and every DatabaseManager that has loaded its
\* key can decrypt every stored record.
C26_SealedUnderStoredKey ==
    \A i \in 1..Len(patients) :
       /\ patients[i].encrypted_data.key = keyFile
       /\ \A p \in Procs :
             encryption_key[p] # NoKey =>
                CanDecrypt(encryption_key[p], patients[i].encrypted_data)

\* ----------------------------------------------------------------- C27
\* C27: once the main window has closed with a LOGOUT usage entry written for
\* its session, AuthManager holds no current user and has_permission is false
\* for every permission.
C27_ClosedWindowNoSession ==
    \A p \in Procs :
       (/\ pc[p] = "exited"
        /\ result[p].op \in {"main_window_logout", "close_event"}
        /\ \E i \in 1..Len(usage_logs) : usage_logs[i].action = "LOGOUT") =>
          /\ current_user[p] = NoUser
          /\ \A perm \in AllPermissionNames : ~has_permission(p, perm)

\* ----------------------------------------------------------------- C28
\* C28: in the usage log the entries of one user alternate: between two LOGOUT
\* entries of a user lies a LOGIN entry of that user.
C28_LoginLogoutAlternate ==
    \A i \in 1..Len(usage_logs), j \in 1..Len(usage_logs) :
       (/\ i < j
        /\ usage_logs[i].action = "LOGOUT"
        /\ usage_logs[j].action = "LOGOUT"
        /\ usage_logs[i].user_id = usage_logs[j].user_id) =>
          \E k \in (i + 1)..(j - 1) :
             /\ usage_logs[k].action = "LOGIN"
             /\ usage_logs[k].user_id = usage_logs[i].user_id

\* ----------------------------------------------------------------- C29
\* C29: every call of initialize_database leaves exactly one identity named
\* admin and leaves every user, patient, image, audit and usage row that
\* existed as it was - also an administrator's password that change_password
\* has replaced.
C29_InitializeIdempotent ==
    [][\A p \in Procs :
          (pc[p] = "init" /\ InitializeDatabase(p)) =>
             /\ Cardinality({i \in 1..Len(users') : users'[i].username = "admin"}) = 1
             /\ Len(users') >= Len(users)
             /\ \A i \in 1..Len(users) : users'[i] = users[i]
             /\ patients' = patients
             /\ xray_images' = xray_images
             /\ audit_logs' = audit_logs
             /\ usage_logs' = usage_logs]_vars

\* process 1 has changed the administrator's password, has been started again
\* and has initialized the database again: the new password still verifies
C29_Witness ==
    /\ pc[1] = "idle"
    /\ result[1].op = "restart"
    /\ pc[2] = "new"
    /\ result[2] = NoResult
    /\ opsLeft = 0
    /\ supplied["admin"] = "pw1"
    /\ checkpw("pw1", users[1].password_hash)
    /\ patients = <<LeftPatient>>
    /\ audit_logs = <<LeftAudit>>

\* ----------------------------------------------------------------- C30
\* C30: every permission the permissions table grants to the radiologist role or
\* to the technician role is granted to a session of the admin role as well.
C30_AdminSuperset ==
    \A p \in Procs :
       (current_user[p] # NoUser /\ current_user[p].role = "admin") =>
          \A r \in {"radiologist", "technician"} :
             \A perm \in Permissions(r) : has_permission(p, perm)

=============================================================================
